---- MODULE Spec2Model ----
(***************************************************************************)
(* Model of src/src/App.jsx (ProfessionalTradingSimulator): the market     *)
(* tick, the event timer, the order-book timer, the order form and         *)
(* executeTrade, with the React closures the callbacks read.               *)
(*                                                                         *)
(* Numbers.  A JavaScript number is modelled as an exact fraction          *)
(* [n |-> numerator, d |-> denominator > 0]; NaN is [n |-> 0, d |-> 0].    *)
(* Arithmetic and comparisons follow IEEE/JS rules for NaN (arithmetic     *)
(* gives NaN, every comparison is false).  Rounding of doubles is not      *)
(* modelled.                                                               *)
(*                                                                         *)
(* Time.  The unit of time is the 500 ms of the price tick.  The event     *)
(* interval (20-40 s) and the event duration (15-45 s) are scaled down to  *)
(* a few units (EventDelayMin..EventDelayMax, DurationMin..DurationMax).   *)
(*                                                                         *)
(* Scheduling.  State updates made by a timer callback are applied at      *)
(* once and rendered by a later Render step; a due timer may run before    *)
(* that step.  Updates made by a click or an input change are rendered     *)
(* before the next event is handled, so a handler always reads the         *)
(* portfolio and the form of the latest state; it reads marketData as of   *)
(* the last render (rMarketData).  Timers fire no earlier than their       *)
(* delay and possibly later (a busy or suspended page).                    *)
(***************************************************************************)
EXTENDS Integers, Sequences, FiniteSets, TLC

\* ---------------------------------------------------------------- bounds
MaxTicks == 3          \* price ticks explored
MaxTrades == 2         \* accepted orders explored, with the whole order form
MaxFills == 3          \* accepted orders explored, with one symbol and two order types
MaxLogFills == 52      \* orders filled in SpecLog: two more than the trade log keeps
MaxLogSells == 1       \* sells among the orders filled in SpecLog
MaxEquityFills == 2    \* orders filled in SpecEquity
MaxFrameFills == 3     \* orders filled in SpecFrame
MaxQuoteFills == 1     \* accepted orders explored between the price ticks
MaxSpawns == 1         \* market events spawned
CapRemaining == 4      \* time left (in 500 ms units) of the events InitCap draws
MaxLate == 1           \* how late (in 500 ms units) a due timer may run
HistLen == 3           \* length of an asset's price history (11700 in the code)
DayLen == 2            \* the "one trading day" lookback (390 in the code)
EquityLen == 2         \* length of the equity history (390 in the code)
EventDelayMin == 2     \* event interval, in 500 ms units (20 s in the code)
EventDelayMax == 3     \* event interval, in 500 ms units (40 s in the code)
DurationMin == 1       \* event duration, in 500 ms units (15 s in the code)
DurationMax == 2       \* event duration, in 500 ms units (45 s in the code)

\* ------------------------------------------------------- program constants
InitialCash == 100000
TickDelay == 1         \* 500 ms, the unit of time
BookDelay == 2         \* 1000 ms
BookLevels == 15
SizeMin == 10
SizeMax == 1000
EventCap == 5
TradeLogCap == 50
MinPrice == [n |-> 1, d |-> 100]

\* ---------------------------------------------------------------- numbers
NaN == [n |-> 0, d |-> 0]
Abs(i) == IF i < 0 THEN -i ELSE i

RECURSIVE GCD(_, _)
GCD(a, b) == IF b = 0 THEN a ELSE GCD(b, a % b)

LCM(a, b) == (a \div GCD(a, b)) * b

Norm(n, d) ==
    IF d = 0 THEN NaN
    ELSE LET s == IF d < 0 THEN -1 ELSE 1
             g == GCD(Abs(n), Abs(d))
         IN  [n |-> (s * n) \div g, d |-> (s * d) \div g]

N(i) == [n |-> i, d |-> 1]
Zero == N(0)
IsNaN(a) == a.d = 0

NNeg(a) == IF IsNaN(a) THEN NaN ELSE [n |-> -a.n, d |-> a.d]
NAdd(a, b) ==
    IF IsNaN(a) \/ IsNaN(b) THEN NaN
    ELSE LET l == LCM(a.d, b.d)
         IN  Norm(a.n * (l \div a.d) + b.n * (l \div b.d), l)
NSub(a, b) == NAdd(a, NNeg(b))
NMul(a, b) ==
    IF IsNaN(a) \/ IsNaN(b) THEN NaN
    ELSE LET g1 == GCD(Abs(a.n), b.d)
             g2 == GCD(Abs(b.n), a.d)
         IN  Norm((a.n \div g1) * (b.n \div g2), (a.d \div g2) * (b.d \div g1))
\* a / b; the divisors of the program are positive or NaN (0/0 is NaN too)
NDiv(a, b) ==
    IF IsNaN(a) \/ IsNaN(b) \/ b.n = 0 THEN NaN
    ELSE NMul(a, Norm(b.d, b.n))

NLt(a, b) ==
    /\ ~IsNaN(a)
    /\ ~IsNaN(b)
    /\ LET l == LCM(a.d, b.d) IN a.n * (l \div a.d) < b.n * (l \div b.d)
NGt(a, b) == NLt(b, a)
NEq(a, b) == ~IsNaN(a) /\ ~IsNaN(b) /\ a = b          \* ===
NLe(a, b) == NLt(a, b) \/ NEq(a, b)
NGe(a, b) == NLe(b, a)
NMax(a, b) == IF IsNaN(a) \/ IsNaN(b) THEN NaN ELSE IF NLt(a, b) THEN b ELSE a
NMin(a, b) == IF IsNaN(a) \/ IsNaN(b) THEN NaN ELSE IF NLt(b, a) THEN b ELSE a
\* x || 0 on a number: 0 and NaN are falsy
OrZero(a) == IF IsNaN(a) \/ a.n = 0 THEN Zero ELSE a

\* ---------------------------------------------------------------- strings
\* A string is a sequence of one-character strings.
DigitChars == <<"0", "1", "2", "3", "4", "5", "6", "7", "8", "9">>
IsDigit(c) == \E i \in 1..10 : DigitChars[i] = c
DigitVal(c) == (CHOOSE i \in 1..10 : DigitChars[i] = c) - 1

RECURSIVE DigitPrefix(_)
DigitPrefix(s) ==
    IF s = <<>> \/ ~IsDigit(Head(s)) THEN <<>>
    ELSE <<Head(s)>> \o DigitPrefix(Tail(s))

RECURSIVE DecimalValue(_)
DecimalValue(ds) ==
    IF ds = <<>> THEN 0
    ELSE 10 * DecimalValue(SubSeq(ds, 1, Len(ds) - 1)) + DigitVal(ds[Len(ds)])

RECURSIVE Pow10(_)
Pow10(k) == IF k = 0 THEN 1 ELSE 10 * Pow10(k - 1)

\* value.replace(/[^0-9]/g, '')
RECURSIVE KeepDigits(_)
KeepDigits(s) ==
    IF s = <<>> THEN <<>>
    ELSE (IF IsDigit(Head(s)) THEN <<Head(s)>> ELSE <<>>) \o KeepDigits(Tail(s))

\* parseInt: optional sign, then the longest run of digits; NaN without a digit
ParseInt(s) ==
    LET neg  == s # <<>> /\ Head(s) = "-"
        rest == IF s # <<>> /\ Head(s) \in {"-", "+"} THEN Tail(s) ELSE s
        ds   == DigitPrefix(rest)
    IN  IF ds = <<>> THEN NaN
        ELSE N((IF neg THEN -1 ELSE 1) * DecimalValue(ds))

\* parseFloat: optional sign, digits, optional "." and digits; NaN without a digit
ParseFloat(s) ==
    LET neg   == s # <<>> /\ Head(s) = "-"
        rest  == IF s # <<>> /\ Head(s) \in {"-", "+"} THEN Tail(s) ELSE s
        ip    == DigitPrefix(rest)
        after == SubSeq(rest, Len(ip) + 1, Len(rest))
        fp    == IF after # <<>> /\ Head(after) = "." THEN DigitPrefix(Tail(after)) ELSE <<>>
        sgn   == IF neg THEN -1 ELSE 1
    IN  IF ip = <<>> /\ fp = <<>> THEN NaN
        ELSE Norm(sgn * (DecimalValue(ip) * Pow10(Len(fp)) + DecimalValue(fp)), Pow10(Len(fp)))

\* ------------------------------------------------------------ the universe
\* Three of the fourteen assets of MARKET_SYMBOLS: two of one sector, one of another.
Symbols == {"AAPL", "MSFT", "BTC"}
Sector(s) == IF s = "BTC" THEN "Cryptocurrency" ELSE "Technology"
Sectors == {"Technology", "Automotive", "Financial", "Cryptocurrency", "E-Commerce"}
NoSector == "null"
OrderTypes == {"market", "limit", "stop"}

\* volatility of MARKET_SYMBOLS, in hundredths
Volatility(s) == IF s = "AAPL" THEN 22 ELSE IF s = "MSFT" THEN 20 ELSE 55

\* The price an asset's generated history ends at.  The code draws it at random
\* (11700 random steps from basePrice); these are three values it can produce.
InitPrice(s) == IF s = "AAPL" THEN N(40000) ELSE IF s = "MSFT" THEN N(20000) ELSE N(80000)

\* ---------------------------------------------------------- price process
\* Math.exp, quantised: the model keeps the direction of the move and the
\* identity exp(0) = 1, and moves the price by a factor of two.
ExpQ(x) == IF x > 0 THEN N(2) ELSE IF x < 0 THEN Norm(1, 2) ELSE N(1)

\* generateRealisticPrice.  Log-changes are integers in units of 1.25e-7:
\*   volatility      in units of 1e-4
\*   marketSentiment in units of 0.00125
\*   eventImpact     in units of 0.0005
\*   randomShock     in tenths, -10..9 for (Math.random() - 0.5) * 2
\*   sqrt(timeStep) = sqrt(1/252/390/2) = 0.00225553 = 18044 units
generateRealisticPrice(previousPrice, volatility, marketSentiment, eventImpact, randomShock) ==
    LET drift            == 800 + 3 * marketSentiment
        volatilityFactor == (volatility * 18044) \div 10000
        priceChange      == drift + (volatilityFactor * randomShock) \div 10 + 4000 * eventImpact
        newPrice         == NMul(previousPrice, ExpQ(priceChange))
    IN  NMax(MinPrice, newPrice)

Shocks == {-10, 9}

\* clamp(value, min, max)
clamp(value, min, max) == IF value < min THEN min ELSE IF value > max THEN max ELSE value

\* ----------------------------------------------------------------- state
VARIABLES
    marketData,          \* symbol -> asset record
    marketStatus,        \* [sentiment (units of 0.0025), events]
    portfolio,           \* [cash, positions, equityHistory, totalValue, realizedPnL]
    tradingState,        \* the order form
    performanceMetrics,
    orderBook,
    tradeHistory,
    rMarketData,         \* marketData as of the last render: what the callbacks close over
    effStatus,           \* marketStatus as of the last run of the simulation effect
    depsChanged,         \* marketData was replaced and the render that follows is pending
    mounted,
    marketTimer,         \* time left of the 500 ms interval (<= 0: due)
    bookTimer,           \* time left of the 1000 ms interval
    eventTimer,          \* time left of the event interval
    eventDelay,          \* the delay the event interval was created with
    intervals,           \* timer kind -> [live: the intervals set and not cleared,
                         \*                current: the one its ref names is live]
    expiry,              \* event id -> time left of its removal timeout
    removedAt,           \* event id -> the number of ticks when its timeout ran (observation)
    lastImpact,          \* symbol -> the eventImpact sum the last tick used (observation)
    lastCall,            \* what executeTrade did, when the last step was a call of it (observation)
    fills,               \* the accepted orders, newest first, each with the cash, the
                         \* realized P/L and the position before it and the profit it
                         \* realized (observation)
    ticks,               \* ticks so far
    spawned              \* events spawned so far

ledgerVars == <<portfolio, performanceMetrics, tradeHistory>>
timerVars == <<marketTimer, bookTimer, eventTimer, eventDelay, intervals>>
vars == <<marketData, marketStatus, portfolio, tradingState, performanceMetrics, orderBook,
          tradeHistory, rMarketData, effStatus, depsChanged, mounted, marketTimer, bookTimer,
          eventTimer, eventDelay, intervals, expiry, removedAt, lastImpact, lastCall, fills, ticks,
          spawned>>

EventDelays == EventDelayMin..EventDelayMax
Durations == DurationMin..DurationMax
EventIds == 1..MaxSpawns

\* The history the initial state generates, quantised like the tick: it rises to
\* the initial price.
RECURSIVE Halved(_, _)
Halved(p, k) == IF k = 0 THEN p ELSE Halved(NMul(p, Norm(1, 2)), k - 1)

InitHistory(s) == [i \in 1..HistLen |-> Halved(InitPrice(s), HistLen - i)]

RECURSIVE SeqMax(_)
SeqMax(q) == IF Len(q) = 1 THEN q[1] ELSE NMax(q[1], SeqMax(Tail(q)))
RECURSIVE SeqMin(_)
SeqMin(q) == IF Len(q) = 1 THEN q[1] ELSE NMin(q[1], SeqMin(Tail(q)))
LastN(q, k) == SubSeq(q, IF Len(q) > k THEN Len(q) - k + 1 ELSE 1, Len(q))

InitAsset(s) ==
    LET currentPrice == InitPrice(s)
        initialHistory == InitHistory(s)
    IN  [price         |-> currentPrice,
         history       |-> initialHistory,
         dailyHigh     |-> SeqMax(LastN(initialHistory, DayLen)),
         dailyLow      |-> SeqMin(LastN(initialHistory, DayLen)),
         change        |-> Zero,
         changePercent |-> Zero,
         bid           |-> NMul(currentPrice, Norm(9995, 10000)),
         ask           |-> NMul(currentPrice, Norm(10005, 10000)),
         spread        |-> NMul(currentPrice, Norm(1, 1000))]

NoCall == [action |-> "none", outcome |-> "none", quantity |-> NaN, price |-> NaN]
NoPositions == [s \in {} |-> Zero]
NoTimeouts == [i \in {} |-> 0]

\* the state after construction, with the given market status and pending timeouts
TimerKinds == {"market", "event", "book"}
NoIntervals == [k \in TimerKinds |-> [live |-> 0, current |-> FALSE]]

\* clearInterval(ref.current): clears the interval the ref names, if it is live
ClearInterval(timer) ==
    IF timer.current THEN [live |-> timer.live - 1, current |-> FALSE] ELSE timer

\* ref.current = setInterval(...)
SetInterval(timer) == [live |-> timer.live + 1, current |-> TRUE]

\* the function the effect returns
EffectCleanup(timers) == [k \in TimerKinds |-> ClearInterval(timers[k])]

\* the timer part of the effect body: clear what the refs name, then set
EffectBody(timers) == [k \in TimerKinds |-> SetInterval(ClearInterval(timers[k]))]

InitWith(status, timeouts) ==
    /\ marketData = [s \in Symbols |-> InitAsset(s)]
    /\ marketStatus = status
    /\ portfolio = [cash          |-> N(InitialCash),
                    positions     |-> NoPositions,
                    equityHistory |-> [i \in 1..EquityLen |-> N(InitialCash)],
                    totalValue    |-> N(InitialCash),
                    realizedPnL   |-> Zero]
    /\ tradingState = [selectedSymbol |-> "AAPL", quantity |-> <<>>, orderType |-> "market",
                       limitPrice |-> <<>>, stopPrice |-> <<>>]
    /\ performanceMetrics = [totalTrades |-> 0, totalProfit |-> Zero, bestTrade |-> Zero,
                             worstTrade |-> Zero, winRate |-> Zero, sharpeRatio |-> Zero,
                             maxDrawdown |-> Zero]
    /\ orderBook = [bids |-> <<>>, asks |-> <<>>]
    /\ tradeHistory = <<>>
    /\ rMarketData = marketData
    /\ effStatus = marketStatus
    /\ depsChanged = FALSE
    /\ mounted = TRUE
    /\ marketTimer = TickDelay
    /\ bookTimer = BookDelay
    /\ eventDelay \in EventDelays
    /\ eventTimer = eventDelay
    /\ intervals = EffectBody(NoIntervals)
    /\ expiry = timeouts
    /\ removedAt = NoTimeouts
    /\ lastImpact = [s \in Symbols |-> 0]
    /\ lastCall = NoCall
    /\ fills = <<>>
    /\ ticks = 0
    /\ spawned = 0

Init == InitWith([sentiment |-> 0, events |-> <<>>], NoTimeouts)

\* ------------------------------------------------------ the simulation effect
\* a re-run that clears nothing: every run leaves three more intervals behind
RunEffect_NoClear(status) ==
    /\ effStatus' = status
    /\ intervals' = [k \in TimerKinds |-> SetInterval(intervals[k])]
    /\ marketTimer' = TickDelay
    /\ bookTimer' = BookDelay
    /\ eventDelay' \in EventDelays
    /\ eventTimer' = eventDelay'

\* A re-run of the effect: React runs the cleanup of the previous run, then the
\* body, which creates the three intervals anew; the new callbacks close over the
\* state of this render.
RunEffect(status) ==
    /\ effStatus' = status
    /\ intervals' = EffectBody(EffectCleanup(intervals))
    /\ marketTimer' = TickDelay
    /\ bookTimer' = BookDelay
    /\ eventDelay' \in EventDelays
    /\ eventTimer' = eventDelay'

\* The render that follows a timer callback's updates; the effect runs again
\* because marketData is a new object.
Render ==
    /\ mounted
    /\ depsChanged
    /\ depsChanged' = FALSE
    /\ rMarketData' = marketData
    /\ RunEffect(marketStatus)
    /\ UNCHANGED <<marketData, marketStatus, ledgerVars, fills, tradingState, orderBook, mounted,
                   expiry, removedAt, lastImpact, ticks, spawned>>
    /\ lastCall' = NoCall

\* ------------------------------------------------------------ the order form
QuantityInputs == {<<"0">>, <<"2">>, <<"-", "3">>}
LimitInputs == {<<"-", "9", "9", "9", "9">>}
StopInputs == {<<"5", "0", "0", "0", "0">>}

UiReady == mounted /\ ~depsChanged

\* onClick of an asset row
SelectSymbol(s) ==
    /\ UiReady
    /\ tradingState' = [tradingState EXCEPT !.selectedSymbol = s]
    /\ IF s # tradingState.selectedSymbol
         THEN RunEffect(marketStatus)
         ELSE UNCHANGED <<effStatus, timerVars>>
    /\ UNCHANGED <<marketData, marketStatus, ledgerVars, fills, orderBook, rMarketData, depsChanged,
                   mounted, expiry, removedAt, lastImpact, ticks, spawned>>
    /\ lastCall' = NoCall

\* onChange of the quantity input
SetQuantity(raw) ==
    /\ UiReady
    /\ tradingState' = [tradingState EXCEPT !.quantity = KeepDigits(raw)]
    /\ UNCHANGED <<marketData, marketStatus, ledgerVars, fills, orderBook, rMarketData, effStatus,
                   depsChanged, mounted, timerVars, expiry, removedAt, lastImpact, ticks, spawned>>
    /\ lastCall' = NoCall

\* onClick of an order-type button
SetOrderType(type) ==
    /\ UiReady
    /\ tradingState' = [tradingState EXCEPT !.orderType = type]
    /\ UNCHANGED <<marketData, marketStatus, ledgerVars, fills, orderBook, rMarketData, effStatus,
                   depsChanged, mounted, timerVars, expiry, removedAt, lastImpact, ticks, spawned>>
    /\ lastCall' = NoCall

\* onChange of the limit price input, rendered for limit orders only
SetLimitPrice(raw) ==
    /\ UiReady
    /\ tradingState.orderType = "limit"
    /\ tradingState' = [tradingState EXCEPT !.limitPrice = raw]
    /\ UNCHANGED <<marketData, marketStatus, ledgerVars, fills, orderBook, rMarketData, effStatus,
                   depsChanged, mounted, timerVars, expiry, removedAt, lastImpact, ticks, spawned>>
    /\ lastCall' = NoCall

\* onChange of the stop price input, rendered for stop orders only
SetStopPrice(raw) ==
    /\ UiReady
    /\ tradingState.orderType = "stop"
    /\ tradingState' = [tradingState EXCEPT !.stopPrice = raw]
    /\ UNCHANGED <<marketData, marketStatus, ledgerVars, fills, orderBook, rMarketData, effStatus,
                   depsChanged, mounted, timerVars, expiry, removedAt, lastImpact, ticks, spawned>>
    /\ lastCall' = NoCall

\* --------------------------------------------------------------- executeTrade
\* a fill price that is the asset's price for a market order
TradePrice_MidPrice(ts, asset, action) ==
    IF ts.orderType = "market" THEN asset.price
      ELSE IF ts.orderType = "limit" THEN ParseFloat(ts.limitPrice)
      ELSE ParseFloat(ts.stopPrice)

\* the fill price; NaN when the limit or stop price does not parse
TradePrice(ts, asset, action) ==
    IF ts.orderType = "market"
      THEN (IF action = "buy" THEN asset.ask ELSE asset.bid)
      ELSE IF ts.orderType = "limit" THEN ParseFloat(ts.limitPrice)
      ELSE ParseFloat(ts.stopPrice)

\* if (quantity <= 0) return
QuantityRejected(quantity) == NLe(quantity, Zero)

\* if (tradeValue > portfolio.cash)
InsufficientFunds(tradeValue, cash) == NGt(tradeValue, cash)

\* the check without its second half
InsufficientShares_PositionOnly(positions, sym, quantity) == sym \notin DOMAIN positions

\* if (!position || position.quantity < quantity)
InsufficientShares(positions, sym, quantity) ==
    \/ sym \notin DOMAIN positions
    \/ NLt(positions[sym].quantity, quantity)

\* a buy that takes the fill price as the new average cost
BuyUpdate_LastPrice(prev, sym, quantity, tradeValue) ==
    LET currentPosition == IF sym \in DOMAIN prev.positions THEN prev.positions[sym]
                           ELSE [quantity |-> Zero, averageCost |-> Zero, totalInvested |-> Zero]
        newPosition == [quantity |-> NAdd(currentPosition.quantity, quantity),
                        averageCost |-> NDiv(tradeValue, quantity),
                        totalInvested |-> NAdd(currentPosition.totalInvested, tradeValue)]
    IN  [prev EXCEPT
           !.cash = NSub(prev.cash, tradeValue),
           !.positions = [s \in DOMAIN prev.positions \cup {sym} |->
                            IF s = sym THEN newPosition ELSE prev.positions[s]]]

\* the updater of setPortfolio for a buy
BuyUpdate(prev, sym, quantity, tradeValue) ==
    LET currentPosition == IF sym \in DOMAIN prev.positions THEN prev.positions[sym]
                           ELSE [quantity |-> Zero, averageCost |-> Zero, totalInvested |-> Zero]
        newQuantity      == NAdd(currentPosition.quantity, quantity)
        newTotalInvested == NAdd(currentPosition.totalInvested, tradeValue)
        newAverageCost   == NDiv(newTotalInvested, newQuantity)
        newPosition      == [quantity |-> newQuantity, averageCost |-> newAverageCost,
                             totalInvested |-> newTotalInvested]
    IN  [prev EXCEPT
           !.cash = NSub(prev.cash, tradeValue),
           !.positions = [s \in DOMAIN prev.positions \cup {sym} |->
                            IF s = sym THEN newPosition ELSE prev.positions[s]]]

\* a sell that books the proceeds as realized P/L
SellUpdate_BooksProceeds(prev, position, sym, quantity, tradeValue, profit) ==
    [prev EXCEPT
       !.cash = NAdd(prev.cash, tradeValue),
       !.positions = IF NEq(NSub(position.quantity, quantity), Zero)
                       THEN [s \in DOMAIN prev.positions \ {sym} |-> prev.positions[s]]
                       ELSE [prev.positions EXCEPT
                               ![sym].quantity = NSub(position.quantity, quantity),
                               ![sym].totalInvested =
                                   NMul(position.averageCost, NSub(position.quantity, quantity))],
       !.realizedPnL = NAdd(prev.realizedPnL, tradeValue)]

\* a sell that credits the profit instead of the proceeds
SellUpdate_CreditsProfit(prev, position, sym, quantity, tradeValue, profit) ==
    [prev EXCEPT
       !.cash = NAdd(prev.cash, profit),
       !.positions = IF NEq(NSub(position.quantity, quantity), Zero)
                       THEN [s \in DOMAIN prev.positions \ {sym} |-> prev.positions[s]]
                       ELSE [prev.positions EXCEPT
                               ![sym].quantity = NSub(position.quantity, quantity)],
       !.realizedPnL = NAdd(prev.realizedPnL, profit)]

\* the updater of setPortfolio for a sell; position is the handler's own copy
SellUpdate(prev, position, sym, quantity, tradeValue, profit) ==
    LET newQuantity  == NSub(position.quantity, quantity)
        newPositions ==
            IF NEq(newQuantity, Zero)
              THEN [s \in DOMAIN prev.positions \ {sym} |-> prev.positions[s]]
              ELSE [s \in DOMAIN prev.positions \cup {sym} |->
                      IF s = sym
                        THEN [position EXCEPT
                                !.quantity = newQuantity,
                                !.totalInvested = NMul(position.averageCost, newQuantity)]
                        ELSE prev.positions[s]]
    IN  [prev EXCEPT
           !.cash = NAdd(prev.cash, tradeValue),
           !.positions = newPositions,
           !.realizedPnL = NAdd(prev.realizedPnL, profit)]

\* the updater of setPerformanceMetrics
\* an updater that also stores ratios derived from the trade
MetricsUpdate_StoresRatios(prev, profit) ==
    [prev EXCEPT
       !.totalTrades = prev.totalTrades + 1,
       !.totalProfit = NAdd(prev.totalProfit, profit),
       !.bestTrade = NMax(prev.bestTrade, profit),
       !.worstTrade = NMin(prev.worstTrade, profit),
       !.winRate = IF NGt(profit, Zero)
                     THEN NDiv(NAdd(NMul(prev.winRate, N(prev.totalTrades)), N(1)),
                               N(prev.totalTrades + 1))
                     ELSE prev.winRate,
       !.sharpeRatio = NAdd(prev.totalProfit, profit),
       !.maxDrawdown = NMax(prev.maxDrawdown, NSub(Zero, profit))]

MetricsUpdate(prev, profit) ==
    [prev EXCEPT
       !.totalTrades = prev.totalTrades + 1,
       !.totalProfit = NAdd(prev.totalProfit, profit),
       !.bestTrade = NMax(prev.bestTrade, profit),
       !.worstTrade = NMin(prev.worstTrade, profit),
       !.winRate = IF NGt(profit, Zero)
                     THEN NDiv(NAdd(NMul(prev.winRate, N(prev.totalTrades)), N(1)),
                               N(prev.totalTrades + 1))
                     ELSE prev.winRate]

\* an updater that keeps every record
LogUpdate_Unbounded(prev, record) == <<record>> \o prev

\* an updater that forgets the new record
LogUpdate_Skip(prev, record) == prev

\* the updater of setTradeHistory: newest first, the last 50 kept
LogUpdate(prev, record) == <<record>> \o SubSeq(prev, 1, IF Len(prev) < TradeLogCap - 1 THEN Len(prev) ELSE TradeLogCap - 1)

\* what executeTrade(action) does with the state it reads
TradeOutcome(action) ==
    LET quantity   == ParseInt(tradingState.quantity)
        sym        == tradingState.selectedSymbol
        tradePrice == TradePrice(tradingState, rMarketData[sym], action)
        tradeValue == NMul(tradePrice, quantity)
    IN  IF QuantityRejected(quantity) THEN "return-quantity"
        ELSE IF sym \notin DOMAIN rMarketData THEN "return-asset"
        ELSE IF tradingState.orderType # "market" /\ IsNaN(tradePrice) THEN "return-price"
        ELSE IF action = "buy"
          THEN (IF InsufficientFunds(tradeValue, portfolio.cash) THEN "alert-funds" ELSE "filled")
          ELSE (IF InsufficientShares(portfolio.positions, sym, quantity)
                  THEN "alert-shares" ELSE "filled")

executeTrade(action) ==
    LET quantity   == ParseInt(tradingState.quantity)
        sym        == tradingState.selectedSymbol
        tradePrice == TradePrice(tradingState, rMarketData[sym], action)
        tradeValue == NMul(tradePrice, quantity)
        outcome    == TradeOutcome(action)
    IN  /\ UiReady
        /\ lastCall' = [action |-> action, outcome |-> outcome, quantity |-> quantity,
                        price |-> tradePrice]
        /\ IF outcome # "filled"
             THEN UNCHANGED <<ledgerVars, fills, tradingState>>
             ELSE /\ IF action = "buy"
                       THEN /\ portfolio' = BuyUpdate(portfolio, sym, quantity, tradeValue)
                            /\ UNCHANGED performanceMetrics
                            /\ fills' = <<[symbol |-> sym, action |-> action,
                                           quantity |-> quantity, price |-> tradePrice,
                                           cash |-> portfolio.cash,
                                           realizedPnL |-> portfolio.realizedPnL,
                                           held |-> IF sym \in DOMAIN portfolio.positions
                                                      THEN portfolio.positions[sym].quantity
                                                      ELSE Zero,
                                           averageCost |->
                                               IF sym \in DOMAIN portfolio.positions
                                                 THEN portfolio.positions[sym].averageCost
                                                 ELSE Zero,
                                           profit |-> Zero]>> \o fills
                       ELSE LET position == portfolio.positions[sym]
                                profit   == NMul(NSub(tradePrice, position.averageCost), quantity)
                            IN  /\ portfolio' = SellUpdate(portfolio, position, sym, quantity,
                                                           tradeValue, profit)
                                /\ performanceMetrics' = MetricsUpdate(performanceMetrics, profit)
                                /\ fills' = <<[symbol |-> sym, action |-> action,
                                               quantity |-> quantity, price |-> tradePrice,
                                               cash |-> portfolio.cash,
                                               realizedPnL |-> portfolio.realizedPnL,
                                               held |-> position.quantity,
                                               averageCost |-> position.averageCost,
                                               profit |-> profit]>> \o fills
                  /\ tradeHistory' = LogUpdate(tradeHistory,
                                               [symbol |-> sym, action |-> action,
                                                quantity |-> quantity, price |-> tradePrice])
                  /\ tradingState' = [tradingState EXCEPT !.quantity = <<>>]
        /\ UNCHANGED <<marketData, marketStatus, orderBook, rMarketData, effStatus, depsChanged,
                       mounted, timerVars, expiry, removedAt, lastImpact, ticks, spawned>>

\* ------------------------------------------------------------------ timers
\* Timer callbacks run in the order in which they fall due.
Pending ==
    (IF mounted THEN {marketTimer, bookTimer, eventTimer} ELSE {})
      \cup {expiry[i] : i \in DOMAIN expiry}
Due(rem) == rem <= 0 /\ \A r \in Pending : rem <= r

\* 500 ms pass; a pending render is done within them
Advance ==
    /\ ~depsChanged
    /\ Pending # {}
    /\ \A r \in Pending : r > -MaxLate
    /\ marketTimer' = IF mounted THEN marketTimer - 1 ELSE marketTimer
    /\ bookTimer' = IF mounted THEN bookTimer - 1 ELSE bookTimer
    /\ eventTimer' = IF mounted THEN eventTimer - 1 ELSE eventTimer
    /\ expiry' = [i \in DOMAIN expiry |-> expiry[i] - 1]
    /\ lastCall' = NoCall
    /\ UNCHANGED <<marketData, marketStatus, ledgerVars, fills, tradingState, orderBook, rMarketData,
                   effStatus, depsChanged, mounted, eventDelay, intervals, removedAt, lastImpact, ticks,
                   spawned>>

\* --------------------------------------------------------------- market tick
\* a reduce that counts an event once for the symbol and once for the sector
RECURSIVE EventImpact_CountsBoth(_, _)
EventImpact_CountsBoth(events, symbol) ==
    IF events = <<>> THEN 0
    ELSE (IF symbol \in Head(events).symbols THEN Head(events).impact ELSE 0)
         + (IF Head(events).sector = Sector(symbol) THEN Head(events).impact ELSE 0)
         + EventImpact_CountsBoth(Tail(events), symbol)

\* the reduce over marketStatus.events of one asset
RECURSIVE EventImpact(_, _)
EventImpact(events, symbol) ==
    IF events = <<>> THEN 0
    ELSE (IF symbol \in Head(events).symbols \/ Head(events).sector = Sector(symbol)
            THEN Head(events).impact ELSE 0)
         + EventImpact(Tail(events), symbol)

\* a tick whose quote has the spread on the wrong sides
TickAsset_CrossedQuote(asset, symbol, status, randomShock) ==
    LET eventImpact == EventImpact(status.events, symbol)
        newPrice == generateRealisticPrice(asset.price, Volatility(symbol) * 70,
                                           status.sentiment, eventImpact, randomShock)
        spread   == NMul(newPrice, Norm(3, 10000))
    IN  [asset EXCEPT
           !.price = newPrice,
           !.history = Tail(asset.history) \o <<newPrice>>,
           !.bid = NAdd(newPrice, spread),
           !.ask = NSub(newPrice, spread)]

\* a tick that appends to the history without dropping its oldest entry
TickAsset_GrowingHistory(asset, symbol, status, randomShock) ==
    LET eventImpact == EventImpact(status.events, symbol)
        newPrice == generateRealisticPrice(asset.price, Volatility(symbol) * 70,
                                           status.sentiment, eventImpact, randomShock)
        spread   == NMul(newPrice, Norm(3, 10000))
    IN  [asset EXCEPT
           !.price = newPrice,
           !.history = asset.history \o <<newPrice>>,
           !.bid = NSub(newPrice, spread),
           !.ask = NAdd(newPrice, spread)]

\* the new record of one asset; status is the marketStatus the callback closed over
TickAsset(asset, symbol, status, randomShock) ==
    LET eventImpact == EventImpact(status.events, symbol)
        newPrice == generateRealisticPrice(asset.price, Volatility(symbol) * 70,
                                           status.sentiment, eventImpact, randomShock)
        spread   == NMul(newPrice, Norm(3, 10000))
        bid      == NSub(newPrice, spread)
        ask      == NAdd(newPrice, spread)
        back     == Len(asset.history) - DayLen + 1
        ref      == IF back >= 1 THEN asset.history[back] ELSE NaN
    IN  [price         |-> newPrice,
         history       |-> Tail(asset.history) \o <<newPrice>>,
         dailyHigh     |-> NMax(asset.dailyHigh, newPrice),
         dailyLow      |-> NMin(asset.dailyLow, newPrice),
         change        |-> OrZero(NSub(newPrice, ref)),
         changePercent |-> OrZero(NMul(NDiv(NSub(newPrice, ref), ref), N(100))),
         bid           |-> bid,
         ask           |-> ask,
         spread        |-> NSub(ask, bid)]

RECURSIVE PositionsValue(_, _, _)
PositionsValue(positions, syms, md) ==
    IF syms = {} THEN Zero
    ELSE LET symbol == CHOOSE s \in syms : TRUE
         IN  NAdd(NMul(IF symbol \in DOMAIN md THEN OrZero(md[symbol].price) ELSE Zero,
                       positions[symbol].quantity),
                  PositionsValue(positions, syms \ {symbol}, md))

\* the updater of setPortfolio in the tick; md is the marketData the callback closed over
\* an updater that appends without dropping the oldest entry
TickPortfolio_Appending(prev, md) ==
    LET positionsValue == PositionsValue(prev.positions, DOMAIN prev.positions, md)
        totalValue     == NAdd(prev.cash, positionsValue)
    IN  [prev EXCEPT
           !.totalValue = totalValue,
           !.equityHistory = prev.equityHistory \o <<totalValue>>]

TickPortfolio(prev, md) ==
    LET positionsValue == PositionsValue(prev.positions, DOMAIN prev.positions, md)
        totalValue     == NAdd(prev.cash, positionsValue)
    IN  [prev EXCEPT
           !.totalValue = totalValue,
           !.equityHistory = Tail(prev.equityHistory) \o <<totalValue>>]

\* sentiment is kept in units of 0.0025: the clamp's limit 1 and the largest step 0.005
SentimentLimit == 400
SentimentStepMax == 2

\* an updater that does not clamp
TickSentiment_NoClamp(prev, step) == [prev EXCEPT !.sentiment = prev.sentiment + step]

\* the updater of setMarketStatus in the tick; step is (Math.random() - 0.5) * 0.01
TickSentiment(prev, step) ==
    [prev EXCEPT !.sentiment = clamp(prev.sentiment + step, -SentimentLimit, SentimentLimit)]

SentimentSteps == {-2, 1}

Tick(shock, step) ==
    /\ mounted
    /\ Due(marketTimer)
    /\ ticks < MaxTicks
    /\ marketData' = [s \in Symbols |-> TickAsset(marketData[s], s, effStatus, shock[s])]
    /\ lastImpact' = [s \in Symbols |-> EventImpact(effStatus.events, s)]
    /\ portfolio' = TickPortfolio(portfolio, rMarketData)
    /\ marketStatus' = TickSentiment(marketStatus, step)
    /\ marketTimer' = TickDelay
    /\ depsChanged' = TRUE
    /\ ticks' = ticks + 1
    /\ lastCall' = NoCall
    /\ UNCHANGED <<performanceMetrics, tradeHistory, fills, tradingState, orderBook, rMarketData,
                   effStatus, mounted, bookTimer, eventTimer, eventDelay, intervals, expiry, removedAt, spawned>>

\* ------------------------------------------------------ performance figures
\* the loop of calculatePerformance over values[i..]: peak and maxDrawdown so far
RECURSIVE DrawdownLoop(_, _, _, _)
DrawdownLoop(values, i, peak, maxDrawdown) ==
    IF i > Len(values) THEN maxDrawdown
    ELSE IF NGt(values[i], peak)
           THEN DrawdownLoop(values, i + 1, values[i], maxDrawdown)
           ELSE DrawdownLoop(values, i + 1, peak,
                             NMax(maxDrawdown, NDiv(NSub(peak, values[i]), peak)))

\* maxDrawdown of calculatePerformance; a history of fewer than two points
\* returns the stored figure.  (A peak of 0 is divided into 0 only: the
\* equity is not negative under the prices explored.)
MaxDrawdownOf(values, stored) ==
    IF Len(values) < 2 THEN stored ELSE DrawdownLoop(values, 2, values[1], Zero)

\* -------------------------------------------------------------- market events
SymbolsOf(md, sector) == {s \in DOMAIN md : Sector(s) = sector}

\* the smallest and the largest size of an impact, 0.001 and 0.005, in units of 0.0005
ImpactMin == 2
ImpactMax == 10

\* an event whose impact is positive whatever its category
NewEvent_AlwaysPositive(id, eventType, magnitude, scope, duration, md) ==
    [id       |-> id,
     impact   |-> magnitude,
     type     |-> IF eventType = "POSITIVE" THEN "positive" ELSE "negative",
     symbols  |-> IF scope \in Sectors THEN SymbolsOf(md, scope) ELSE {scope},
     sector   |-> IF scope \in Sectors THEN scope ELSE NoSector,
     duration |-> duration]

\* the event the callback builds.  scope is a sector name or a symbol.
NewEvent(id, eventType, magnitude, scope, duration, md) ==
    [id       |-> id,
     impact   |-> IF eventType = "POSITIVE" THEN magnitude ELSE -magnitude,
     type     |-> IF eventType = "POSITIVE" THEN "positive" ELSE "negative",
     symbols  |-> IF scope \in Sectors THEN SymbolsOf(md, scope) ELSE {scope},
     sector   |-> IF scope \in Sectors THEN scope ELSE NoSector,
     duration |-> duration]

\* [newEvent, ...prev.events.slice(0, 4)]
AddEvent(prev, newEvent) ==
    [prev EXCEPT !.events = <<newEvent>> \o SubSeq(prev.events, 1,
                     IF Len(prev.events) < EventCap - 1 THEN Len(prev.events) ELSE EventCap - 1)]

\* a filter that keeps every event
RemoveEvent_KeepAll(prev, id) == prev

\* prev.events.filter(e => e.id !== newEvent.id)
RemoveEvent(prev, id) ==
    [prev EXCEPT !.events = SelectSeq(prev.events, LAMBDA e : e.id # id)]

\* the event interval fires and Math.random() >= 0.2
EventCheckIdle ==
    /\ mounted
    /\ Due(eventTimer)
    /\ eventTimer' = eventDelay
    /\ lastCall' = NoCall
    /\ UNCHANGED <<marketData, marketStatus, ledgerVars, fills, tradingState, orderBook, rMarketData,
                   effStatus, depsChanged, mounted, marketTimer, bookTimer, eventDelay, intervals, expiry, removedAt,
                   lastImpact, ticks, spawned>>

\* the event interval fires and spawns an event
EventCheckSpawn(eventType, magnitude, scope, duration) ==
    /\ mounted
    /\ Due(eventTimer)
    /\ spawned < MaxSpawns
    /\ LET newEvent == NewEvent(spawned + 1, eventType, magnitude, scope, duration, rMarketData)
       IN  /\ marketStatus' = AddEvent(marketStatus, newEvent)
           /\ expiry' = [i \in DOMAIN expiry \cup {newEvent.id} |->
                           IF i = newEvent.id THEN newEvent.duration ELSE expiry[i]]
    /\ spawned' = spawned + 1
    /\ eventTimer' = eventDelay
    /\ lastCall' = NoCall
    /\ UNCHANGED <<marketData, ledgerVars, fills, tradingState, orderBook, rMarketData, effStatus,
                   depsChanged, mounted, marketTimer, bookTimer, eventDelay, intervals, removedAt,
                   lastImpact, ticks>>

\* a timeout whose update is applied after the unmount as well
ExpireEvent_AfterUnmount(id) ==
    /\ id \in DOMAIN expiry
    /\ Due(expiry[id])
    /\ expiry' = [i \in DOMAIN expiry \ {id} |-> expiry[i]]
    /\ removedAt' = [i \in DOMAIN removedAt \cup {id} |-> IF i = id THEN ticks ELSE removedAt[i]]
    /\ marketStatus' = RemoveEvent(marketStatus, id)
    /\ lastCall' = NoCall
    /\ UNCHANGED <<marketData, ledgerVars, fills, tradingState, orderBook, rMarketData, effStatus,
                   depsChanged, mounted, timerVars, lastImpact, ticks, spawned>>

\* the setTimeout callback of event id; an unmounted component ignores the update
ExpireEvent(id) ==
    /\ id \in DOMAIN expiry
    /\ Due(expiry[id])
    /\ expiry' = [i \in DOMAIN expiry \ {id} |-> expiry[i]]
    /\ removedAt' = [i \in DOMAIN removedAt \cup {id} |-> IF i = id THEN ticks ELSE removedAt[i]]
    /\ marketStatus' = IF mounted THEN RemoveEvent(marketStatus, id) ELSE marketStatus
    /\ lastCall' = NoCall
    /\ UNCHANGED <<marketData, ledgerVars, fills, tradingState, orderBook, rMarketData, effStatus,
                   depsChanged, mounted, timerVars, lastImpact, ticks, spawned>>

\* ----------------------------------------------------------------- order book
\* size[i] is the i-th randomInt(10, 1000) drawn: bids first, then asks
\* a book whose levels are counted from 0: the first bid and ask sit at the price
generateOrderBook_FromZero(price, size) ==
    LET spread == NMul(price, Norm(5, 10000))
    IN  [bids |-> [i \in 1..BookLevels |->
                     [price |-> NSub(price, NMul(spread, N(i - 1))), size |-> size[i]]],
         asks |-> [i \in 1..BookLevels |->
                     [price |-> NAdd(price, NMul(spread, N(i - 1))), size |-> size[BookLevels + i]]]]

generateOrderBook(price, size) ==
    LET spread == NMul(price, Norm(5, 10000))
    IN  [bids |-> [i \in 1..BookLevels |->
                     [price |-> NSub(price, NMul(spread, N(i))), size |-> size[i]]],
         asks |-> [i \in 1..BookLevels |->
                     [price |-> NAdd(price, NMul(spread, N(i))), size |-> size[BookLevels + i]]]]

BookSizes == {[i \in 1..(2 * BookLevels) |-> IF i % 2 = 0 THEN SizeMin ELSE SizeMax],
              [i \in 1..(2 * BookLevels) |-> IF i % 3 = 0 THEN SizeMax ELSE SizeMin + i]}

BookRefresh(size) ==
    /\ mounted
    /\ Due(bookTimer)
    /\ orderBook' = IF tradingState.selectedSymbol \in DOMAIN rMarketData
                      THEN generateOrderBook(rMarketData[tradingState.selectedSymbol].price, size)
                      ELSE orderBook
    /\ bookTimer' = BookDelay
    /\ lastCall' = NoCall
    /\ UNCHANGED <<marketData, marketStatus, ledgerVars, fills, tradingState, rMarketData, effStatus,
                   depsChanged, mounted, marketTimer, eventTimer, eventDelay, intervals, expiry, removedAt,
                   lastImpact, ticks, spawned>>

\* -------------------------------------------------------------------- unmount
\* the effect's cleanup: the three intervals are cleared, the timeouts are not
Unmount ==
    /\ mounted
    /\ mounted' = FALSE
    /\ depsChanged' = FALSE
    /\ lastCall' = NoCall
    /\ intervals' = EffectCleanup(intervals)
    /\ UNCHANGED <<marketData, marketStatus, ledgerVars, fills, tradingState, orderBook, rMarketData,
                   effStatus, marketTimer, bookTimer, eventTimer, eventDelay, expiry, removedAt,
                   lastImpact, ticks, spawned>>

\* ------------------------------------------------------------ specifications
AllShocks == [Symbols -> Shocks]
EventTypes == {"POSITIVE", "NEGATIVE"}
Magnitudes == {2}
Scopes == {"Technology", "AAPL"}

\* The order form and executeTrade, between two price ticks.
NextTrading ==
    \/ \E s \in Symbols : SelectSymbol(s)
    \/ \E raw \in QuantityInputs : SetQuantity(raw)
    \/ \E type \in OrderTypes : SetOrderType(type)
    \/ \E raw \in LimitInputs : SetLimitPrice(raw)
    \/ \E raw \in StopInputs : SetStopPrice(raw)
    \/ \E action \in {"buy", "sell"} : executeTrade(action) /\ Len(fills') <= MaxTrades

SpecTrading == Init /\ [][NextTrading]_vars

\* the random draws of one tick: a shock per asset and a sentiment step
ShockOf(aapl, msft, btc) == [s \in Symbols |-> IF s = "AAPL" THEN aapl ELSE IF s = "MSFT" THEN msft ELSE btc]
TickDraws == {<<ShockOf(9, -10, 9), 1>>, <<ShockOf(-10, 9, -10), -2>>}

\* The timers, the tick, the events and the order book, without orders.
NextMarket ==
    \/ Advance
    \/ Render
    \/ \E draw \in TickDraws : Tick(draw[1], draw[2])
    \/ EventCheckIdle
    \/ \E eventType \in EventTypes, magnitude \in Magnitudes, scope \in Scopes,
          duration \in {DurationMin, DurationMax} :
            EventCheckSpawn(eventType, magnitude, scope, duration)
    \/ \E id \in EventIds : ExpireEvent(id)
    \/ \E size \in BookSizes : BookRefresh(size)

SpecMarket == Init /\ [][NextMarket]_vars

\* The cap of the event list. The intervals of the code put event checks at
\* least 20 s apart and an event lasts at most 45 s, so the timers never hold
\* more than three events and SpecMarket never fills the list. The updater of
\* lines 363-366 is therefore applied to lists that InitCap draws: CapHeld events
\* of CapMagnitude on AAPL, each with CapRemaining units left on its timeout.
CapMagnitude == 2
CapHeld == {EventCap - 1, EventCap}
CapIds == (MaxSpawns + 1)..(MaxSpawns + EventCap)
CapEvent(id) ==
    NewEvent(id, "POSITIVE", CapMagnitude, "AAPL", CapRemaining, [s \in Symbols |-> InitAsset(s)])

InitCap ==
    \E held \in CapHeld :
        InitWith([sentiment |-> 0, events |-> [i \in 1..held |-> CapEvent(MaxSpawns + i)]],
                 [id \in (MaxSpawns + 1)..(MaxSpawns + held) |-> CapRemaining])

\* Orders of one symbol, market or limit, at a limit price above the quote.
LedgerQuantities == {<<"0">>, <<"1">>, <<"2">>}
LedgerLimits == {<<"5", "0", "0", "0", "0">>}

NextLedger ==
    \/ \E raw \in LedgerQuantities : SetQuantity(raw)
    \/ \E type \in {"market", "limit"} : SetOrderType(type)
    \/ \E raw \in LedgerLimits : SetLimitPrice(raw)
    \/ \E action \in {"buy", "sell"} : executeTrade(action) /\ Len(fills') <= MaxFills

SpecLedger == Init /\ [][NextLedger]_vars

\* Orders of one share between the price ticks.
QuoteQuantities == {<<"1">>}
QuoteDraws == {<<ShockOf(9, -10, 9), 1>>}

NextQuote ==
    \/ Advance
    \/ Render
    \/ \E draw \in QuoteDraws : Tick(draw[1], draw[2])
    \/ \E raw \in QuoteQuantities : SetQuantity(raw)
    \/ \E type \in OrderTypes : SetOrderType(type)
    \/ \E raw \in LimitInputs : SetLimitPrice(raw)
    \/ \E raw \in StopInputs : SetStopPrice(raw)
    \/ \E action \in {"buy", "sell"} : executeTrade(action) /\ Len(fills') <= MaxQuoteFills

SpecQuote == Init /\ [][NextQuote]_vars

\* One-share limit orders with a typed quantity at a price of 1, most of them
\* buys, enough of them to fill the trade log.
LogQuantities == {<<"1">>}
LogLimits == {<<"1">>}
Sells(log) == Cardinality({i \in 1..Len(log) : log[i].action = "sell"})

NextLog ==
    \/ \E raw \in LogQuantities : SetQuantity(raw)
    \/ SetOrderType("limit")
    \/ \E raw \in LogLimits : SetLimitPrice(raw)
    \/ \E action \in {"buy", "sell"} :
          /\ tradingState.quantity # <<>>
          /\ tradingState.orderType = "limit"
          /\ executeTrade(action)
          /\ Len(fills') <= MaxLogFills
          /\ Sells(fills') <= MaxLogSells

SpecLog == Init /\ [][NextLog]_vars

\* The tick alone, from a sentiment the random walk has brought to a limit, next
\* to it, or left at its initial value.
InitSentiments == {-SentimentLimit, 1 - SentimentLimit, 0, SentimentLimit - 1, SentimentLimit}
InitSentiment == \E sentiment \in InitSentiments :
                    InitWith([sentiment |-> sentiment, events |-> <<>>], NoTimeouts)
NextSentiment ==
    \/ Advance
    \/ Render
    \/ \E draw \in TickDraws, step \in SentimentSteps : Tick(draw[1], step)

SpecSentiment == InitSentiment /\ [][NextSentiment]_vars

\* Ticks and one-share limit orders with a typed quantity, at a price of 0 or
\* of all the initial cash.
EquityQuantities == {<<"1">>}
EquityLimits == {<<"1", "0", "0", "0", "0", "0">>, <<"0">>}
NextEquity ==
    \/ Advance
    \/ Render
    \/ \E draw \in QuoteDraws : Tick(draw[1], draw[2])
    \/ \E raw \in EquityQuantities : SetQuantity(raw)
    \/ SetOrderType("limit")
    \/ \E raw \in EquityLimits : SetLimitPrice(raw)
    \/ \E action \in {"buy", "sell"} :
          /\ tradingState.quantity # <<>>
          /\ tradingState.orderType = "limit"
          /\ executeTrade(action)
          /\ Len(fills') <= MaxEquityFills

SpecEquity == Init /\ [][NextEquity]_vars

\* The timers, the tick, the events and the order book, with the unmount.
NextStop ==
    \/ Advance
    \/ Render
    \/ \E draw \in QuoteDraws : Tick(draw[1], draw[2])
    \/ EventCheckIdle
    \/ \E duration \in {DurationMin, DurationMax} :
          EventCheckSpawn("POSITIVE", CapMagnitude, "AAPL", duration)
    \/ \E id \in EventIds : ExpireEvent(id)
    \/ \E size \in BookSizes : BookRefresh(size)
    \/ Unmount

SpecStop == Init /\ [][NextStop]_vars

\* The timers, the tick, the events and the order book, with impacts over the
\* whole range and scopes of both kinds.
SpawnMagnitudes == {ImpactMin, ImpactMax}
SpawnScopes == {"Technology", "Cryptocurrency", "MSFT", "BTC"}
NextSpawn ==
    \/ Advance
    \/ Render
    \/ \E draw \in QuoteDraws : Tick(draw[1], draw[2])
    \/ EventCheckIdle
    \/ \E eventType \in EventTypes, magnitude \in SpawnMagnitudes, scope \in SpawnScopes,
          duration \in Durations :
            EventCheckSpawn(eventType, magnitude, scope, duration)
    \/ \E id \in EventIds : ExpireEvent(id)
    \/ \E size \in BookSizes : BookRefresh(size)

SpecSpawn == Init /\ [][NextSpawn]_vars

\* The timers, the tick and the order book, with every way the effect re-runs
\* (a tick's render, the choice of another asset) and the unmount.
NextTimers ==
    \/ Advance
    \/ Render
    \/ \E draw \in QuoteDraws : Tick(draw[1], draw[2])
    \/ EventCheckIdle
    \/ \E size \in BookSizes : BookRefresh(size)
    \/ \E s \in Symbols : SelectSymbol(s)
    \/ Unmount

SpecTimers == Init /\ [][NextTimers]_vars

\* Price ticks among everything a tick could disturb: one-share market orders,
\* events that spawn and expire, and the order book.
NextFrame ==
    \/ Advance
    \/ Render
    \/ \E draw \in QuoteDraws : Tick(draw[1], draw[2])
    \/ EventCheckIdle
    \/ EventCheckSpawn("POSITIVE", CapMagnitude, "AAPL", DurationMax)
    \/ \E id \in EventIds : ExpireEvent(id)
    \/ \E size \in BookSizes : BookRefresh(size)
    \/ \E raw \in QuoteQuantities : SetQuantity(raw)
    \/ \E action \in {"buy", "sell"} :
          /\ tradingState.quantity # <<>>
          /\ executeTrade(action)
          /\ Len(fills') <= MaxFrameFills

SpecFrame == Init /\ [][NextFrame]_vars

\* The timers, the tick and the events, from a list at or next to the cap.
NextCap ==
    \/ Advance
    \/ Render
    \/ \E draw \in QuoteDraws : Tick(draw[1], draw[2])
    \/ EventCheckIdle
    \/ EventCheckSpawn("POSITIVE", CapMagnitude, "AAPL", DurationMax)
    \/ \E id \in EventIds \cup CapIds : ExpireEvent(id)
    \/ \E size \in BookSizes : BookRefresh(size)

SpecCap == InitCap /\ [][NextCap]_vars

Next ==
    \/ NextTrading
    \/ NextLedger
    \/ NextQuote
    \/ NextMarket
    \/ NextCap
    \/ NextLog
    \/ NextSentiment
    \/ NextEquity
    \/ NextStop
    \/ NextSpawn
    \/ NextTimers
    \/ NextFrame
    \/ \E shock \in AllShocks, step \in SentimentSteps : Tick(shock, step)
    \/ Unmount
Spec == Init /\ [][Next]_vars

\* ===================================================================== claims
\* the shares of sym the trade log says were bought, minus those it says were sold
RECURSIVE NetShares(_, _)
NetShares(log, sym) ==
    IF log = <<>> THEN Zero
    ELSE NAdd(IF Head(log).symbol # sym THEN Zero
              ELSE IF Head(log).action = "buy" THEN Head(log).quantity
              ELSE NSub(Zero, Head(log).quantity),
              NetShares(Tail(log), sym))

\* C1: a buy is filled only when fill price x quantity is at most the cash held
\* when the debit is applied, and the cash it leaves is not negative.
C1_BuyWithinCash ==
    [][(lastCall'.action = "buy" /\ lastCall'.outcome = "filled")
         => /\ NLe(NMul(lastCall'.price, lastCall'.quantity), portfolio.cash)
            /\ NGe(portfolio'.cash, Zero)]_vars

\* C2: an order whose quantity is not a positive integer (zero, or an input that
\* parses to no number) is not filled and leaves the cash, the positions, the
\* metrics and the trade log as they were.
C2_BadQuantityRejected ==
    [][(lastCall'.action # "none" /\ ~NGt(ParseInt(tradingState.quantity), Zero))
         => (lastCall'.outcome # "filled" /\ UNCHANGED ledgerVars)]_vars

\* C3: a sell of more shares than the position holds, or of a symbol without a
\* position, is not filled and leaves the cash, the positions, the metrics and
\* the trade log as they were.
C3_OversellRejected ==
    [][(/\ lastCall'.action = "sell"
        /\ \/ tradingState.selectedSymbol \notin DOMAIN portfolio.positions
           \/ NGt(ParseInt(tradingState.quantity),
                  portfolio.positions[tradingState.selectedSymbol].quantity))
         => (lastCall'.outcome # "filled" /\ UNCHANGED ledgerVars)]_vars

\* C3, its case: a sell of more shares than the held position was just turned down.
C3_Witness ==
    /\ lastCall.action = "sell"
    /\ lastCall.outcome = "alert-shares"
    /\ tradingState.selectedSymbol \in DOMAIN portfolio.positions
    /\ NGt(lastCall.quantity, portfolio.positions[tradingState.selectedSymbol].quantity)

\* C4: in every state, totalValue is the cash plus the sum over the positions of
\* quantity x current price (here: in every state whose amounts are all numbers).
C4_TotalValueCurrent ==
    (/\ ~IsNaN(portfolio.cash)
     /\ \A s \in DOMAIN portfolio.positions : ~IsNaN(portfolio.positions[s].quantity))
      => NEq(portfolio.totalValue,
             NAdd(portfolio.cash,
                  PositionsValue(portfolio.positions, DOMAIN portfolio.positions, marketData)))

\* C5: for every symbol the stored quantity (none stored: 0) is the number of
\* shares bought minus the number sold, and it is not negative.
C5_SharesConserved ==
    \A s \in Symbols :
        LET held == IF s \in DOMAIN portfolio.positions THEN portfolio.positions[s].quantity
                    ELSE Zero
        IN  NEq(held, NetShares(tradeHistory, s)) /\ NGe(held, Zero)

\* C6: an event leaves the list only when its timeout of duration D is due, it
\* leaves it then and stays out; every listed event is applied by every tick, and
\* an event no longer listed is applied by no tick but the one that follows its
\* removal.
C6_EventLifetime ==
    [][LET listed   == {marketStatus.events[i].id : i \in 1..Len(marketStatus.events)}
           listed2  == {marketStatus'.events[i].id : i \in 1..Len(marketStatus'.events)}
           justGone == {id \in DOMAIN removedAt : removedAt[id] = ticks}
       IN  /\ \A id \in listed \ listed2 : id \in DOMAIN expiry /\ expiry[id] <= 0
           /\ \A id \in DOMAIN removedAt' : id \notin listed2
           /\ ticks' = ticks + 1 =>
                /\ \A i \in 1..Len(marketStatus.events) :
                      \E j \in 1..Len(effStatus.events) :
                          effStatus.events[j] = marketStatus.events[i]
                /\ \A j \in 1..Len(effStatus.events) :
                      effStatus.events[j].id \in listed \cup justGone
                /\ justGone = {} =>
                      \A s \in Symbols : lastImpact'[s] = EventImpact(marketStatus.events, s)]_vars

\* C6, its case: the last tick applied event 1 to AAPL, and its timeout has since
\* removed it.
C6_Witness ==
    /\ 1 \in DOMAIN removedAt
    /\ removedAt[1] = ticks
    /\ marketStatus.events = <<>>
    /\ lastImpact["AAPL"] # 0

\* C7: the 1000 ms timer of the order book runs on whatever the tick does: the
\* time it has left grows only when it has fired.
C7_BookTimerRunsOn == [][bookTimer' > bookTimer => bookTimer <= 0]_vars

\* C8: the timer of the event check runs on whatever the tick does: the time it
\* has left grows only when it has fired.
C8_EventTimerRunsOn == [][eventTimer' > eventTimer => eventTimer <= 0]_vars

\* C9: the cash is never below zero, whatever the side, the type and the price of
\* the orders filled.
C9_CashNeverNegative == ~NLt(portfolio.cash, Zero)

\* C10: every stored position has an integer quantity above zero.
C10_PositionsPositive ==
    \A s \in DOMAIN portfolio.positions :
        /\ NGt(portfolio.positions[s].quantity, Zero)
        /\ portfolio.positions[s].quantity.d = 1

\* C11 as stated: when the last two accepted orders are an affordable buy of Q
\* at P and a sell of the same Q of the same symbol at the same P, the cash and
\* the realized P/L are what they were before the buy, whatever was held.
C11_RoundTripZero ==
    (/\ Len(fills) >= 2
     /\ fills[1].action = "sell" /\ fills[2].action = "buy"
     /\ fills[1].symbol = fills[2].symbol
     /\ NEq(fills[1].quantity, fills[2].quantity)
     /\ NEq(fills[1].price, fills[2].price)
     /\ NLe(NMul(fills[2].price, fills[2].quantity), fills[2].cash))
      => /\ NEq(portfolio.cash, fills[2].cash)
         /\ NEq(portfolio.realizedPnL, fills[2].realizedPnL)

\* C11 amended: such a round trip restores the cash; with h shares held before
\* the buy at average cost a it adds Q x h x (P - a) / (h + Q) to the realized
\* P/L, which is zero when nothing was held or a = P.
C11_RoundTrip ==
    (/\ Len(fills) >= 2
     /\ fills[1].action = "sell" /\ fills[2].action = "buy"
     /\ fills[1].symbol = fills[2].symbol
     /\ NEq(fills[1].quantity, fills[2].quantity)
     /\ NEq(fills[1].price, fills[2].price)
     /\ NLe(NMul(fills[2].price, fills[2].quantity), fills[2].cash))
      => /\ NEq(portfolio.cash, fills[2].cash)
         /\ NEq(NSub(portfolio.realizedPnL, fills[2].realizedPnL),
                NDiv(NMul(NMul(fills[2].quantity, fills[2].held),
                          NSub(fills[2].price, fills[2].averageCost)),
                     NAdd(fills[2].held, fills[2].quantity)))
         /\ (NEq(fills[2].held, Zero) \/ NEq(fills[2].averageCost, fills[2].price))
              => NEq(portfolio.realizedPnL, fills[2].realizedPnL)

\* C11, its case: a round trip on a symbol held before the buy at another cost
C11_Witness ==
    /\ Len(fills) >= 2
    /\ fills[1].action = "sell" /\ fills[2].action = "buy"
    /\ fills[1].symbol = fills[2].symbol
    /\ NEq(fills[1].quantity, fills[2].quantity)
    /\ NEq(fills[1].price, fills[2].price)
    /\ NGt(fills[2].held, Zero)
    /\ ~NEq(fills[2].averageCost, fills[2].price)

\* the number of sells among the accepted orders that realized a profit above zero
RECURSIVE Wins(_)
Wins(log) ==
    IF log = <<>> THEN 0
    ELSE (IF Head(log).action = "sell" /\ NGt(Head(log).profit, Zero) THEN 1 ELSE 0)
         + Wins(Tail(log))

\* C12: winRate is the number of sells with a realized profit above zero divided
\* by the number of sells (totalTrades) (here: whenever every profit is a number).
C12_WinRateIsFraction ==
    (/\ performanceMetrics.totalTrades > 0
     /\ \A i \in 1..Len(fills) : ~IsNaN(fills[i].profit))
      => NEq(NMul(performanceMetrics.winRate, N(performanceMetrics.totalTrades)),
             N(Wins(fills)))

\* C13: a call of executeTrade commits all of its updates or none: when the
\* portfolio changes, the trade log gains exactly one record, that of this call,
\* and for a sell totalTrades and totalProfit are updated as well; when the log
\* gains a record the ledger update was applied; when it gains none, the
\* portfolio, the metrics and the log are as they were.  (The log stays below
\* TradeLogCap under SpecLedger; C23 covers the full log.)
C13_AllOrNothing ==
    [][lastCall'.action # "none" =>
         LET logged == Len(tradeHistory') = Len(tradeHistory) + 1
         IN  /\ portfolio' # portfolio => logged
             /\ logged =>
                  /\ Tail(tradeHistory') = tradeHistory
                  /\ tradeHistory'[1].action = lastCall'.action
                  /\ fills' # fills
                  /\ Head(fills').cash = portfolio.cash
                  /\ portfolio'.cash = IF lastCall'.action = "buy"
                                         THEN NSub(portfolio.cash,
                                                   NMul(lastCall'.price, lastCall'.quantity))
                                         ELSE NAdd(portfolio.cash,
                                                   NMul(lastCall'.price, lastCall'.quantity))
                  /\ lastCall'.action = "sell" =>
                       /\ performanceMetrics'.totalTrades = performanceMetrics.totalTrades + 1
                       /\ performanceMetrics'.totalProfit =
                            NAdd(performanceMetrics.totalProfit, Head(fills').profit)
             /\ lastCall'.action = "buy" => UNCHANGED performanceMetrics
             /\ ~logged => UNCHANGED ledgerVars]_vars

\* C13, its case: a sell was just committed
C13_Witness ==
    /\ lastCall.action = "sell"
    /\ lastCall.outcome = "filled"
    /\ NGt(lastCall.quantity, Zero)
    /\ performanceMetrics.totalTrades >= 1
    /\ tradeHistory # <<>> /\ tradeHistory[1].action = "sell"

\* C14: a call of executeTrade that rejects the order tells the user why: every
\* call that does not fill ends in one of the alerts.
C14_RejectionsReported ==
    (lastCall.action # "none" /\ lastCall.outcome # "filled")
      => lastCall.outcome \in {"alert-funds", "alert-shares"}

\* C15: in every state every asset has a price above zero (every price of its
\* history as well) and bid <= price <= ask.
C15_QuoteAroundPrice ==
    \A s \in Symbols :
        /\ NGt(marketData[s].price, Zero)
        /\ \A i \in 1..Len(marketData[s].history) : NGt(marketData[s].history[i], Zero)
        /\ NLe(marketData[s].bid, marketData[s].price)
        /\ NLe(marketData[s].price, marketData[s].ask)

\* C15, its case: ticks have moved the price of AAPL, the last with an event
C15_Witness ==
    /\ ticks >= 2
    /\ lastImpact["AAPL"] # 0
    /\ marketData["AAPL"].price # InitPrice("AAPL")

\* C16: every stored position has totalInvested = averageCost x quantity.
C16_InvestedIsCostTimesQuantity ==
    \A s \in DOMAIN portfolio.positions :
        NEq(portfolio.positions[s].totalInvested,
            NMul(portfolio.positions[s].averageCost, portfolio.positions[s].quantity))

\* C17: an accepted sell of q at fill price p from a position of average cost a
\* adds p x q to the cash and (p - a) x q to the realized P/L, takes q from the
\* position's quantity and leaves its average cost; a position sold out is
\* removed; the other positions are as they were.
C17_SellBooksProfit ==
    [][(lastCall'.action = "sell" /\ lastCall'.outcome = "filled") =>
         LET sym  == tradingState.selectedSymbol
             q    == lastCall'.quantity
             p    == lastCall'.price
             old  == portfolio.positions[sym]
             left == NSub(old.quantity, q)
         IN  /\ portfolio'.cash = NAdd(portfolio.cash, NMul(p, q))
             /\ portfolio'.realizedPnL =
                  NAdd(portfolio.realizedPnL, NMul(NSub(p, old.averageCost), q))
             /\ IF NEq(left, Zero)
                  THEN sym \notin DOMAIN portfolio'.positions
                  ELSE /\ sym \in DOMAIN portfolio'.positions
                       /\ portfolio'.positions[sym].quantity = left
                       /\ portfolio'.positions[sym].averageCost = old.averageCost
             /\ \A s \in DOMAIN portfolio.positions \ {sym} :
                    /\ s \in DOMAIN portfolio'.positions
                    /\ portfolio'.positions[s] = portfolio.positions[s]
             /\ DOMAIN portfolio'.positions \subseteq DOMAIN portfolio.positions]_vars

\* C17, its case: a sell of part of a position has just realized a profit
C17_Witness ==
    /\ lastCall.action = "sell"
    /\ lastCall.outcome = "filled"
    /\ NGt(lastCall.quantity, Zero)
    /\ tradingState.selectedSymbol \in DOMAIN portfolio.positions
    /\ NGt(fills[1].profit, Zero)
    /\ NGt(portfolio.realizedPnL, Zero)

\* C18: an accepted buy of q at fill price p on a position (oldQty, oldAvg)
\* takes p x q from the cash and leaves the quantity oldQty + q at the average
\* cost (oldAvg x oldQty + p x q) / (oldQty + q); without a position before, the
\* average cost of q > 0 shares is p; the other positions and the realized P/L
\* are as they were.
C18_BuyAveragesCost ==
    [][(lastCall'.action = "buy" /\ lastCall'.outcome = "filled") =>
         LET sym    == tradingState.selectedSymbol
             q      == lastCall'.quantity
             p      == lastCall'.price
             held   == sym \in DOMAIN portfolio.positions
             oldQty == IF held THEN portfolio.positions[sym].quantity ELSE Zero
             oldAvg == IF held THEN portfolio.positions[sym].averageCost ELSE Zero
         IN  /\ portfolio'.cash = NSub(portfolio.cash, NMul(p, q))
             /\ sym \in DOMAIN portfolio'.positions
             /\ portfolio'.positions[sym].quantity = NAdd(oldQty, q)
             /\ portfolio'.positions[sym].averageCost =
                  NDiv(NAdd(NMul(oldAvg, oldQty), NMul(p, q)), NAdd(oldQty, q))
             /\ (~held /\ NGt(q, Zero)) => portfolio'.positions[sym].averageCost = p
             /\ \A s \in DOMAIN portfolio.positions \ {sym} :
                    portfolio'.positions[s] = portfolio.positions[s]
             /\ DOMAIN portfolio'.positions = DOMAIN portfolio.positions \cup {sym}
             /\ portfolio'.realizedPnL = portfolio.realizedPnL]_vars

\* C18, its case: a buy at another price has just been added to a held position
C18_Witness ==
    /\ lastCall.action = "buy"
    /\ lastCall.outcome = "filled"
    /\ NGt(lastCall.quantity, Zero)
    /\ NGt(fills[1].held, Zero)
    /\ ~NEq(fills[1].averageCost, lastCall.price)
    /\ NGt(portfolio.positions[tradingState.selectedSymbol].quantity, fills[1].held)

\* C19: a market buy takes the ask and a market sell the bid of the selected
\* asset as the last completed tick left them (bid, price and ask of one tick);
\* a limit or stop order takes the price the user typed and, when that is a
\* number, is filled whatever the quote is, unless funds or shares are short; a
\* filled order is logged at that price.
C19_FillPrice ==
    [][(lastCall'.action # "none"
          /\ lastCall'.outcome \notin {"return-quantity", "return-asset"}) =>
         LET quote == marketData[tradingState.selectedSymbol]
             type  == tradingState.orderType
         IN  /\ type = "market" =>
                  /\ lastCall'.price = IF lastCall'.action = "buy" THEN quote.ask ELSE quote.bid
                  /\ quote.price = quote.history[Len(quote.history)]
                  /\ NLe(quote.bid, quote.price) /\ NLe(quote.price, quote.ask)
             /\ type = "limit" => lastCall'.price = ParseFloat(tradingState.limitPrice)
             /\ type = "stop" => lastCall'.price = ParseFloat(tradingState.stopPrice)
             /\ (type # "market" /\ ~IsNaN(lastCall'.price)) =>
                  lastCall'.outcome \in {"filled", "alert-funds", "alert-shares"}
             /\ lastCall'.outcome = "filled" => tradeHistory'[1].price = lastCall'.price]_vars

\* C19, its case: a market buy was just filled at the ask a tick has set
C19_Witness ==
    /\ lastCall.action = "buy"
    /\ lastCall.outcome = "filled"
    /\ NGt(lastCall.quantity, Zero)
    /\ tradingState.orderType = "market"
    /\ ticks >= 1
    /\ lastCall.price = marketData[tradingState.selectedSymbol].ask
    /\ lastCall.price # InitAsset(tradingState.selectedSymbol).ask

\* C20: an event pushed out of the list by a spawn at the cap keeps adding its
\* impact to the price ticks until its own duration has elapsed. Every event of
\* SpecCap adds CapMagnitude to AAPL, so each tick's impact sum for AAPL is at
\* least CapMagnitude for every event whose timeout still has time left.
Unexpired == {id \in DOMAIN expiry : expiry[id] > 0}
InScope(event, symbol) ==
    IF event.sector = NoSector THEN event.symbols = {symbol} ELSE Sector(symbol) = event.sector
RECURSIVE ScopeSum(_, _)
ScopeSum(events, symbol) ==
    IF events = <<>> THEN 0
    ELSE (IF InScope(Head(events), symbol) THEN Head(events).impact ELSE 0)
         + ScopeSum(Tail(events), symbol)
C21_EventScope ==
    [][ticks' = ticks + 1 =>
         /\ \A i \in 1..Len(marketStatus.events) :
               \E j \in 1..Len(effStatus.events) : effStatus.events[j] = marketStatus.events[i]
         /\ \A s \in Symbols :
               /\ lastImpact'[s] = ScopeSum(effStatus.events, s)
               /\ \E randomShock \in Shocks :
                     marketData'[s].price =
                        generateRealisticPrice(marketData[s].price, Volatility(s) * 70,
                                               effStatus.sentiment, ScopeSum(effStatus.events, s),
                                               randomShock)]_vars

\* C21, its case: a tick has applied a sector event to the two Technology
\* assets and not to BTC
C21_Witness ==
    /\ ticks >= 1
    /\ depsChanged
    /\ \E j \in 1..Len(effStatus.events) : effStatus.events[j].sector = "Technology"
    /\ lastImpact["AAPL"] # 0
    /\ lastImpact["MSFT"] = lastImpact["AAPL"]
    /\ lastImpact["BTC"] = 0

\* C22: after every tick an asset's dailyHigh and dailyLow are the maximum and
\* the minimum price of the last DayLen history points.
C22_DailyRangeOfWindow ==
    \A s \in Symbols :
        /\ marketData[s].dailyHigh = SeqMax(LastN(marketData[s].history, DayLen))
        /\ marketData[s].dailyLow = SeqMin(LastN(marketData[s].history, DayLen))

\* C23: the trade log is append-only and bounded: a filled order puts exactly
\* one record (symbol, side, quantity, fill price) at the front and moves the
\* records already there back by one place unchanged, a rejected order and
\* every other step leave the log as it is, and the log never holds more than
\* TradeLogCap records, the most recent ones.
C23_LogAppendOnly ==
    [][/\ Len(tradeHistory') <= TradeLogCap
       /\ IF lastCall'.action # "none" /\ lastCall'.outcome = "filled"
            THEN /\ Len(tradeHistory') = IF Len(tradeHistory) < TradeLogCap
                                            THEN Len(tradeHistory) + 1 ELSE TradeLogCap
                 /\ tradeHistory'[1] = [symbol   |-> tradingState.selectedSymbol,
                                        action   |-> lastCall'.action,
                                        quantity |-> lastCall'.quantity,
                                        price    |-> lastCall'.price]
                 /\ \A i \in 2..Len(tradeHistory') : tradeHistory'[i] = tradeHistory[i - 1]
            ELSE tradeHistory' = tradeHistory]_vars

\* C23, its case: an order was just filled with the log already full, so that
\* the oldest record has been dropped
C23_Witness ==
    /\ lastCall.outcome = "filled"
    /\ Len(tradeHistory) = TradeLogCap
    /\ Len(fills) > TradeLogCap
    /\ \E i \in 1..TradeLogCap : tradeHistory[i].action = "sell"

\* C24: in every state the market sentiment lies in [-1, 1], and one tick
\* changes it by at most 0.005 in either direction.
C24_SentimentBounded ==
    [][/\ marketStatus.sentiment \in -SentimentLimit..SentimentLimit
       /\ marketStatus'.sentiment \in -SentimentLimit..SentimentLimit
       /\ marketStatus'.sentiment - marketStatus.sentiment \in -SentimentStepMax..SentimentStepMax
       /\ ticks' = ticks => marketStatus'.sentiment = marketStatus.sentiment]_vars

\* C24, its case: the first tick has left the sentiment at the lower limit; it
\* started at the limit or one unit above it and every step of SentimentSteps
\* moves it, so the clamp has cut the step
C24_Witness ==
    /\ ticks = 1
    /\ marketStatus.sentiment = -SentimentLimit

\* the sum of (fill price - average cost) x quantity over the accepted sells,
\* oldest first
RECURSIVE SellProfits(_)
SellProfits(log) ==
    IF log = <<>> THEN Zero
    ELSE LET rest == SellProfits(Tail(log))
             fill == Head(log)
         IN  IF fill.action = "sell"
               THEN NAdd(rest, NMul(NSub(fill.price, fill.averageCost), fill.quantity))
               ELSE rest

\* C26: after any sequence of accepted orders totalProfit equals realizedPnL and
\* both equal the sum of (fill price - average cost) x quantity over the accepted
\* sells; a step that is not an accepted sell (a buy, a rejected order, a tick)
\* changes neither.
C26_ProfitIsRealized ==
    [][/\ NEq(performanceMetrics'.totalProfit, portfolio'.realizedPnL)
       /\ NEq(portfolio'.realizedPnL, SellProfits(fills'))
       /\ ~(lastCall'.action = "sell" /\ lastCall'.outcome = "filled") =>
             /\ performanceMetrics'.totalProfit = performanceMetrics.totalProfit
             /\ portfolio'.realizedPnL = portfolio.realizedPnL]_vars

\* the largest of (running peak - value) / running peak over the points of values
RunningPeak(values, i) == SeqMax(SubSeq(values, 1, i))
PeakDrawdowns(values) ==
    [i \in 1..Len(values) |->
        NDiv(NSub(RunningPeak(values, i), values[i]), RunningPeak(values, i))]

\* C27: for an equity history of at least two points the computed maxDrawdown
\* is at least 0 and is the largest (running peak - value) / running peak of the
\* window.
C27_MaxDrawdown ==
    Len(portfolio.equityHistory) >= 2 =>
        LET maxDrawdown == MaxDrawdownOf(portfolio.equityHistory, performanceMetrics.maxDrawdown)
        IN  /\ NGe(maxDrawdown, Zero)
            /\ NEq(maxDrawdown, SeqMax(PeakDrawdowns(portfolio.equityHistory)))

\* C28: a tick appends one entry to every asset's history, the asset's new
\* price, and drops the oldest entry; no other step touches a history; so a
\* history keeps its length and its newest entry is the asset's current price.
C28_RollingHistory ==
    [][\A s \in Symbols :
         /\ Len(marketData[s].history) = HistLen
         /\ Len(marketData'[s].history) = HistLen
         /\ marketData'[s].history[HistLen] = marketData'[s].price
         /\ IF ticks' = ticks + 1
              THEN \A i \in 1..(HistLen - 1) :
                       marketData'[s].history[i] = marketData[s].history[i + 1]
              ELSE marketData'[s].history = marketData[s].history]_vars

\* C28, its case: two ticks have moved every price and shifted every history
C28_Witness ==
    /\ ticks = 2
    /\ \A s \in Symbols :
          /\ marketData[s].price # InitPrice(s)
          /\ marketData[s].history[HistLen] = marketData[s].price
          /\ marketData[s].history[HistLen - 2] = InitPrice(s)

\* C29: a refresh of the order book stores BookLevels bids and BookLevels asks
\* built from the one price the callback holds, the i-th bid at price - i x 0.05%
\* of the price and the i-th ask at price + i x 0.05% of it, every size within
\* SizeMin..SizeMax, every bid below and every ask above the price; no level of
\* the book before is kept, and no other step changes the book.
C29_OrderBookLevels ==
    [][IF bookTimer <= 0 /\ bookTimer' = BookDelay /\ depsChanged' = depsChanged
         THEN LET price == rMarketData[tradingState.selectedSymbol].price
              IN  /\ Len(orderBook'.bids) = BookLevels
                  /\ Len(orderBook'.asks) = BookLevels
                  /\ \A i \in 1..BookLevels :
                        /\ orderBook'.bids[i].price = NMul(price, Norm(10000 - 5 * i, 10000))
                        /\ orderBook'.asks[i].price = NMul(price, Norm(10000 + 5 * i, 10000))
                        /\ NLt(orderBook'.bids[i].price, price)
                        /\ NGt(orderBook'.asks[i].price, price)
                        /\ orderBook'.bids[i].size \in SizeMin..SizeMax
                        /\ orderBook'.asks[i].size \in SizeMin..SizeMax
         ELSE orderBook' = orderBook]_vars

\* C29, its case: the book was refreshed after a tick had moved the price
C29_Witness ==
    /\ ticks >= 1
    /\ Len(orderBook.bids) = BookLevels
    /\ rMarketData["AAPL"].price # InitPrice("AAPL")
    /\ orderBook.asks[1].price = NMul(rMarketData["AAPL"].price, Norm(10005, 10000))

SellProfitList(log) ==
    LET sells == SelectSeq(log, LAMBDA fill : fill.action = "sell")
    IN  [i \in 1..Len(sells) |->
           NMul(NSub(sells[i].price, sells[i].averageCost), sells[i].quantity)]

\* C31: after one or more accepted sells bestTrade is the largest and worstTrade
\* the smallest realized profit among those sells (here: whenever every accepted
\* quantity is a number).
C31_BestAndWorstTrade ==
    (/\ Sells(fills) >= 1
     /\ \A i \in 1..Len(fills) : ~IsNaN(fills[i].quantity))
      => /\ NEq(performanceMetrics.bestTrade, SeqMax(SellProfitList(fills)))
         /\ NEq(performanceMetrics.worstTrade, SeqMin(SellProfitList(fills)))

\* C32: every spawned event has an impact of the sign of its category, of a
\* size between 0.001 and 0.005, and a duration within the range of durations; a
\* single-asset event names exactly one symbol and no sector, a sector event
\* names one sector and exactly the symbols tagged with it.
C32_SpawnedEventShape ==
    [][spawned' = spawned + 1 =>
         LET event == marketStatus'.events[1]
         IN  /\ event.type \in {"positive", "negative"}
             /\ event.type = "positive" => event.impact \in ImpactMin..ImpactMax
             /\ event.type = "negative" => event.impact \in -ImpactMax..-ImpactMin
             /\ event.duration \in DurationMin..DurationMax
             /\ expiry'[event.id] = event.duration
             /\ IF event.sector = NoSector
                  THEN \E s \in Symbols : event.symbols = {s}
                  ELSE /\ event.sector \in Sectors
                       /\ event.symbols = {s \in Symbols : Sector(s) = event.sector}]_vars

\* C32, its case: a negative sector event of the largest size is listed
C32_Witness ==
    \E i \in 1..Len(marketStatus.events) :
        /\ marketStatus.events[i].type = "negative"
        /\ marketStatus.events[i].impact = -ImpactMax
        /\ marketStatus.events[i].sector = "Technology"
        /\ marketStatus.events[i].symbols = {"AAPL", "MSFT"}

\* C33: at most one interval of each kind (price tick, event check, order-book
\* refresh) is live at any time, however often the effect re-runs; the price tick
\* runs only when its 500 ms interval is due and leaves a whole period to wait,
\* every re-run of the effect starts the period anew, and the time left only
\* falls as time passes, without a tick.
C33_OneTimerPerKind ==
    /\ [](\A k \in TimerKinds : intervals[k].live <= 1)
    /\ [][ticks' = ticks + 1 => marketTimer <= 0 /\ marketTimer' = TickDelay]_vars
    /\ [][marketTimer' > marketTimer => marketTimer' = TickDelay]_vars
    /\ [][marketTimer' < marketTimer => marketTimer' = marketTimer - 1 /\ ticks' = ticks]_vars

\* the effect has re-run after two ticks and after the choice of another asset,
\* and one interval of each kind is live
C33_Witness ==
    /\ mounted
    /\ ~depsChanged
    /\ ticks >= 2
    /\ tradingState.selectedSymbol # "AAPL"
    /\ \A k \in TimerKinds : intervals[k] = [live |-> 1, current |-> TRUE]

\* C34: a price tick leaves the cash, the positions, the realized P/L, the
\* performance metrics, the trade log and the list of active events as they were
\* (and the order form and the order book with them); the equity history keeps
\* its length and its newest entry is the new totalValue.
C34_TickFrame ==
    [][ticks' = ticks + 1 =>
         /\ portfolio'.cash = portfolio.cash
         /\ portfolio'.positions = portfolio.positions
         /\ portfolio'.realizedPnL = portfolio.realizedPnL
         /\ performanceMetrics' = performanceMetrics
         /\ tradeHistory' = tradeHistory
         /\ marketStatus'.events = marketStatus.events
         /\ tradingState' = tradingState
         /\ orderBook' = orderBook
         /\ Len(portfolio'.equityHistory) = EquityLen
         /\ portfolio'.equityHistory[EquityLen] = portfolio'.totalValue]_vars

\* a tick has just run with a position held, a sale made, an event listed and
\* an order book shown, and it has moved totalValue
C34_Witness ==
    /\ ticks >= 1
    /\ depsChanged
    /\ DOMAIN portfolio.positions # {}
    /\ performanceMetrics.totalTrades >= 1
    /\ tradeHistory # <<>>
    /\ marketStatus.events # <<>>
    /\ orderBook.bids # <<>>
    /\ portfolio.totalValue # N(InitialCash)
    /\ portfolio.equityHistory[EquityLen] = portfolio.totalValue
    /\ portfolio.equityHistory[EquityLen - 1] # portfolio.totalValue

====
